---- MODULE Spec2Model ----
(***************************************************************************)
(* The task service of main.go: five echo handlers (createTask,            *)
(* getAllTasks, getTaskByID, updateTask, deleteTask) over one MongoDB       *)
(* collection.  Handlers run concurrently, one goroutine per request; the  *)
(* only shared state is the collection, the wall clock read by time.Now()  *)
(* and the counter behind primitive.NewObjectID().  A handler is split     *)
(* into one action per access to shared state.                             *)
(***************************************************************************)
EXTENDS Integers, Sequences, FiniteSets, TLC

VARIABLES
    taskCollection,   \* the collection: a function from the _id values present to documents
    clock,            \* the wall clock time.Now() reads, in ticks
    objectIDCounter,  \* the counter primitive.NewObjectID() draws from
    h,                \* per goroutine: the handler's position and locals
    last,             \* the response written by the step that led here (op "none": none)
    requests,         \* history: the requests accepted past validation by multi-step handlers
    created,          \* history: _id -> title, description, status returned by its 201
    modified,         \* history: the _ids an UpdateOne has been applied to
    deleted,          \* history: the _ids whose Delete answered 200
    written           \* history: _id present -> the values of the request that wrote it last

vars == <<taskCollection, clock, objectIDCounter, h, last, requests, created, modified, deleted, written>>

---------------------------------------------------------------------------
\* Bounds of the model.
MaxRequests == 3     \* Create, Update and List requests accepted in a run
MaxTasks == 2        \* ObjectIDs drawn in a run
MaxClock == 2        \* last tick of the clock
MaxInFlight == 2     \* handlers in flight at once

\* Program constants, scaled.
HexLen == 2          \* digits of an ObjectID in the path (24 in the driver)
TicksPerMilli == 2   \* clock ticks per millisecond, the precision of a BSON datetime

Procs == 1..MaxInFlight

---------------------------------------------------------------------------
\* Path identifiers: strings of digits.  The digits are binary here.
HexDigits == {"0", "1"}

DigitValue(c) == IF c = "0" THEN 0 ELSE 1

RECURSIVE HexValue(_)
HexValue(s) ==
    IF Len(s) = 0 THEN 0
    ELSE 2 * HexValue(SubSeq(s, 1, Len(s) - 1)) + DigitValue(s[Len(s)])

\* primitive.ObjectIDFromHex: an error unless the string has exactly HexLen
\* digits, all of them hexadecimal.
ObjectIDFromHex(s) ==
    IF Len(s) = HexLen /\ \A i \in 1..Len(s) : s[i] \in HexDigits
    THEN [err |-> FALSE, id |-> HexValue(s)]
    ELSE [err |-> TRUE, id |-> 0]

NilObjectID == 0

\* ObjectID.Hex: the HexLen digits of an id.
RECURSIVE Digits(_, _)
Digits(id, n) ==
    IF n = 0 THEN <<>>
    ELSE Append(Digits(id \div 2, n - 1), IF id % 2 = 0 THEN "0" ELSE "1")

Hex(id) == Digits(id, HexLen)

\* The path parameters tried: the ids a run can draw, the nil id (never
\* drawn), a string that is too short and one with a character that is no
\* digit.
Params ==
    {Hex(id) : id \in 0..MaxTasks}
      \cup {[i \in 1..(HexLen - 1) |-> "0"]}
      \cup {[i \in 1..HexLen |-> IF i = 1 THEN "z" ELSE "0"]}

---------------------------------------------------------------------------
\* Request bodies.  A JSON object carries a key or does not: <<>> is a key
\* that is absent, <<v>> a key with value v.
ZeroTime == 0 - TicksPerMilli                  \* Go's zero time.Time, before the epoch
CallerTime == (MaxClock + 1) * TicksPerMilli   \* a timestamp only a caller can send

Malformed == [malformed |-> TRUE]

Json(title, description, status, id, created_at, updated_at) ==
    [title |-> title, description |-> description, status |-> status,
     id |-> id, created_at |-> created_at, updated_at |-> updated_at]

\* The bodies tried: a full one, title only, title with an empty status, one
\* that also carries id, created_at and updated_at, one without title, one
\* with an empty title.
Bodies ==
    {Json(<<"A">>, <<"D">>, <<"Done">>, <<>>, <<>>, <<>>),
     Json(<<"A">>, <<>>, <<>>, <<>>, <<>>, <<>>),
     Json(<<"A">>, <<>>, <<"">>, <<>>, <<>>, <<>>),
     Json(<<"A">>, <<"D">>, <<"Done">>, <<1>>, <<CallerTime>>, <<CallerTime>>),
     Json(<<>>, <<"D">>, <<"Done">>, <<>>, <<>>, <<>>),
     Json(<<"">>, <<>>, <<>>, <<>>, <<>>, <<>>)}

Field(x, zero) == IF x = <<>> THEN zero ELSE x[1]

\* c.Bind into a new(Task): a key the body lacks leaves the field's zero value.
Bind(body) ==
    [ID |-> Field(body.id, NilObjectID),
     Title |-> Field(body.title, ""),
     Description |-> Field(body.description, ""),
     Status |-> Field(body.status, ""),
     CreatedAt |-> Field(body.created_at, ZeroTime),
     UpdatedAt |-> Field(body.updated_at, ZeroTime)]

---------------------------------------------------------------------------
\* BSON.  A datetime keeps milliseconds; description is omitempty.
DateTime(t) == t \div TicksPerMilli
TimeOf(ms) == ms * TicksPerMilli

\* The document InsertOne writes for a Task (its _id is the key).
Marshal(task) ==
    [title |-> task.Title,
     description |-> IF task.Description = "" THEN <<>> ELSE <<task.Description>>,
     status |-> task.Status,
     created_at |-> DateTime(task.CreatedAt),
     updated_at |-> DateTime(task.UpdatedAt)]

\* Decode of the document stored under id into a Task.
Decode(id, doc) ==
    [ID |-> id,
     Title |-> doc.title,
     Description |-> Field(doc.description, ""),
     Status |-> doc.status,
     CreatedAt |-> TimeOf(doc.created_at),
     UpdatedAt |-> TimeOf(doc.updated_at)]

---------------------------------------------------------------------------
Idle == [pc |-> "idle"]
NoResponse == [op |-> "none", status |-> 0, msg |-> "", id |-> NilObjectID, body |-> <<>>]

\* c.JSON(status, ...): op is the handler, msg the error or message text,
\* body the Task or Tasks sent; id is the _id a 200, 201 or 404 is about.
Response(op, status, msg, id, body) ==
    [op |-> op, status |-> status, msg |-> msg, id |-> id, body |-> body]

\* A new request is served by the first idle goroutine.
FirstIdle(p) == h[p] = Idle /\ \A q \in Procs : q < p => h[q] # Idle

\* The response of the last step has been sent; the next step starts.
Ready == last.op = "none"

Init ==
    /\ taskCollection = <<>>
    /\ clock = TicksPerMilli - 1
    /\ objectIDCounter = 1
    /\ h = [p \in Procs |-> Idle]
    /\ last = NoResponse
    /\ requests = 0
    /\ created = <<>>
    /\ modified = {}
    /\ deleted = {}
    /\ written = <<>>

\* Time passes.
Tick ==
    /\ Ready
    /\ clock < MaxClock
    /\ clock' = clock + 1
    /\ last' = NoResponse
    /\ UNCHANGED <<taskCollection, objectIDCounter, h, requests, created, modified, deleted, written>>

\* The response is on the wire.
Sent ==
    /\ ~Ready
    /\ last' = NoResponse
    /\ UNCHANGED <<taskCollection, clock, objectIDCounter, h, requests, created, modified, deleted, written>>

---------------------------------------------------------------------------
\* createTask, main.go 48-71.

\* The title check dropped.
TitleMissing_Never(task) == FALSE

\* Line 54: the title check.
TitleMissing(task) == task.Title = ""

\* The default dropped: the status stays as bound.
WithDefaultStatus_Never(task) == task

\* Lines 57-59: the default status.
WithDefaultStatus(task) ==
    IF task.Status = "" THEN [task EXCEPT !.Status = "Pending"] ELSE task

\* primitive.NewObjectID(): the next value of the process's counter.
NewObjectID == objectIDCounter

\* An id the payload carries is kept.
AssignID_KeepPayload(task) ==
    IF task.ID # NilObjectID THEN task ELSE [task EXCEPT !.ID = NewObjectID]

\* Line 61: task.ID = primitive.NewObjectID().
AssignID(task) == [task EXCEPT !.ID = NewObjectID]

\* A created_at the payload carries is kept.
StampCreatedAt_IfZero(task) ==
    IF task.CreatedAt # ZeroTime THEN task ELSE [task EXCEPT !.CreatedAt = clock]

\* Line 62: task.CreatedAt = time.Now().
StampCreatedAt(task) == [task EXCEPT !.CreatedAt = clock]

\* The values a request hands to the store for a record: what a reader of the
\* record is to get back (updated_at at the precision the store keeps).
Values(title, description, status, updated_at) ==
    [title |-> title, description |-> description, status |-> status,
     updated_at |-> DateTime(updated_at)]

\* Lines 49-62: bind, validate, default the status, draw the id and read the
\* clock into CreatedAt.  payload is history: the Task as c.Bind left it.
createTask_begin(p, body) ==
    /\ Ready /\ FirstIdle(p)
    /\ IF "malformed" \in DOMAIN body
       THEN /\ last' = Response("create", 400, "Invalid input data", NilObjectID, <<>>)
            /\ UNCHANGED <<objectIDCounter, h, requests>>
       ELSE IF TitleMissing(Bind(body))
       THEN /\ last' = Response("create", 400, "Title is required", NilObjectID, <<>>)
            /\ UNCHANGED <<objectIDCounter, h, requests>>
       ELSE /\ requests < MaxRequests
            /\ objectIDCounter <= MaxTasks
            /\ requests' = requests + 1
            /\ LET task == WithDefaultStatus(Bind(body)) IN
               h' = [h EXCEPT ![p] =
                      [pc |-> "create_63",
                       task |-> StampCreatedAt(AssignID(task)),
                       payload |-> Bind(body)]]
            /\ objectIDCounter' = objectIDCounter + 1
            /\ last' = NoResponse
    /\ UNCHANGED <<taskCollection, clock, created, modified, deleted, written>>

\* Line 63: the second read of the clock, into UpdatedAt.
createTask_updatedAt(p) ==
    /\ Ready /\ h[p].pc = "create_63"
    /\ h' = [h EXCEPT ![p] = [pc |-> "create_65",
                              task |-> [h[p].task EXCEPT !.UpdatedAt = clock],
                              payload |-> h[p].payload]]
    /\ last' = NoResponse
    /\ UNCHANGED <<taskCollection, clock, objectIDCounter, requests, created, modified, deleted, written>>

\* Lines 65-70: InsertOne and the 201 with the task; an _id already in the
\* collection is a duplicate key error, a 500.
createTask_insert(p) ==
    /\ Ready /\ h[p].pc = "create_65"
    /\ LET task == h[p].task IN
       IF task.ID \in DOMAIN taskCollection
       THEN /\ last' = Response("create", 500, "Failed to create task", NilObjectID, <<>>)
            /\ UNCHANGED <<taskCollection, created, written>>
       ELSE /\ taskCollection' = (task.ID :> Marshal(task)) @@ taskCollection
            /\ last' = Response("create", 201, "", task.ID, <<task>>)
            /\ created' = (task.ID :> [title |-> task.Title,
                                       description |-> task.Description,
                                       status |-> task.Status]) @@ created
            /\ written' = (task.ID :> Values(task.Title, task.Description,
                                             task.Status, task.UpdatedAt)) @@ written
    /\ h' = [h EXCEPT ![p] = Idle]
    /\ UNCHANGED <<clock, objectIDCounter, requests, modified, deleted>>

---------------------------------------------------------------------------
\* getAllTasks, main.go 73-90.  The cursor hands the documents out in _id
\* order, one round trip to the server per document: a document inserted or
\* deleted while the listing runs is seen or not by where the cursor stands.

\* A cursor that steps over every other document.
Remaining_Skip(pos) == {i \in DOMAIN taskCollection : i > pos + 1}

\* The _ids the cursor has still to visit.
Remaining(pos) == {i \in DOMAIN taskCollection : i > pos}

Min(S) == CHOOSE i \in S : \A j \in S : i <= j

\* Lines 74-80: Find opens the cursor.  n0 is history: the number of Creates
\* answered 201 when the listing began.
getAllTasks_find(p) ==
    /\ Ready /\ FirstIdle(p)
    /\ requests < MaxRequests
    /\ requests' = requests + 1
    /\ h' = [h EXCEPT ![p] = [pc |-> "list_81", pos |-> 0 - 1, tasks |-> <<>>,
                              n0 |-> Cardinality(DOMAIN created)]]
    /\ last' = NoResponse
    /\ UNCHANGED <<taskCollection, clock, objectIDCounter, created, modified, deleted, written>>

\* Lines 81-87: cursor.Next finds a document, Decode and append.
getAllTasks_next(p) ==
    /\ Ready /\ h[p].pc = "list_81"
    /\ Remaining(h[p].pos) # {}
    /\ LET i == Min(Remaining(h[p].pos)) IN
       h' = [h EXCEPT ![p] = [h[p] EXCEPT !.pos = i,
                                !.tasks = Append(@, Decode(i, taskCollection[i]))]]
    /\ last' = NoResponse
    /\ UNCHANGED <<taskCollection, clock, objectIDCounter, requests, created, modified, deleted, written>>

\* Lines 81, 89: cursor.Next finds the cursor exhausted; the 200 with the tasks.
getAllTasks_done(p) ==
    /\ Ready /\ h[p].pc = "list_81"
    /\ Remaining(h[p].pos) = {}
    /\ last' = Response("list", 200, "", NilObjectID, h[p].tasks)
    /\ h' = [h EXCEPT ![p] = Idle]
    /\ UNCHANGED <<taskCollection, clock, objectIDCounter, requests, created, modified, deleted, written>>

---------------------------------------------------------------------------
\* getTaskByID, main.go 92-109: one FindOne.
getTaskByID(param) ==
    /\ Ready
    /\ LET parsed == ObjectIDFromHex(param) IN
       IF parsed.err
       THEN last' = Response("get", 400, "Invalid ID", NilObjectID, <<>>)
       ELSE IF parsed.id \notin DOMAIN taskCollection
       THEN last' = Response("get", 404, "Task not found", parsed.id, <<>>)
       ELSE last' = Response("get", 200, "", parsed.id,
                             <<Decode(parsed.id, taskCollection[parsed.id])>>)
    /\ UNCHANGED <<taskCollection, clock, objectIDCounter, h, requests, created, modified, deleted, written>>

---------------------------------------------------------------------------
\* updateTask, main.go 111-142.

\* Lines 124-131: the $set document built from the bound payload.
UpdateData(update) ==
    [title |-> update.Title,
     description |-> update.Description,
     status |-> update.Status,
     updated_at |-> update.UpdatedAt]

\* A merge: an empty value in the $set keeps the stored one.
ApplySet_Merge(doc, set) ==
    [doc EXCEPT !.title = IF set.title = "" THEN @ ELSE set.title,
                !.description = IF set.description = "" THEN @ ELSE <<set.description>>,
                !.status = IF set.status = "" THEN @ ELSE set.status,
                !.updated_at = DateTime(set.updated_at)]

\* updated_at only moves forward: the newer of the stored and the $set value.
ApplySet_KeepNewer(doc, set) ==
    [doc EXCEPT !.title = set.title,
                !.description = <<set.description>>,
                !.status = set.status,
                !.updated_at = IF DateTime(set.updated_at) > @
                               THEN DateTime(set.updated_at) ELSE @]

\* A $set applied field by field and seen half way: title and updated_at are
\* written, description and status are still the stored ones.
ApplySet_Partial(doc, set) ==
    [doc EXCEPT !.title = set.title,
                !.updated_at = DateTime(set.updated_at)]

\* The $set of UpdateOne applied to a stored document, in one step.
ApplySet(doc, set) ==
    [doc EXCEPT !.title = set.title,
                !.description = <<set.description>>,
                !.status = set.status,
                !.updated_at = DateTime(set.updated_at)]

\* An upsert: when no document matches, one is inserted with the _id of the
\* filter and the fields of the $set.
UpdateOne_Upsert(id, set) ==
    IF id \in DOMAIN taskCollection
    THEN [i \in DOMAIN taskCollection |->
            IF i = id THEN ApplySet(taskCollection[i], set) ELSE taskCollection[i]]
    ELSE (id :> [title |-> set.title,
                 description |-> <<set.description>>,
                 status |-> set.status,
                 created_at |-> DateTime(ZeroTime),
                 updated_at |-> DateTime(set.updated_at)]) @@ taskCollection

\* Line 133: UpdateOne with the filter {_id: id}: the document it matches,
\* if any, gets the $set; no document is inserted (no upsert).
UpdateOne(id, set) ==
    [i \in DOMAIN taskCollection |->
        IF i = id THEN ApplySet(taskCollection[i], set) ELSE taskCollection[i]]

\* The MatchedCount check dropped.
Matched_Always(id) == TRUE

\* The wrong count read: one that is 0 whatever matched.
Matched_Never(id) == FALSE

\* Line 137: result.MatchedCount is not 0.
Matched(id) == id \in DOMAIN taskCollection

\* Lines 112-131: parse the id, bind, read the clock, build the $set.
updateTask_begin(p, param, body) ==
    /\ Ready /\ FirstIdle(p)
    /\ LET parsed == ObjectIDFromHex(param) IN
       IF parsed.err
       THEN /\ last' = Response("update", 400, "Invalid ID", NilObjectID, <<>>)
            /\ UNCHANGED <<h, requests>>
       ELSE IF "malformed" \in DOMAIN body
       THEN /\ last' = Response("update", 400, "Invalid input data", NilObjectID, <<>>)
            /\ UNCHANGED <<h, requests>>
       ELSE /\ requests < MaxRequests
            /\ requests' = requests + 1
            /\ h' = [h EXCEPT ![p] =
                      [pc |-> "update_133", id |-> parsed.id,
                       updateData |-> UpdateData([Bind(body) EXCEPT !.UpdatedAt = clock])]]
            /\ last' = NoResponse
    /\ UNCHANGED <<taskCollection, clock, objectIDCounter, created, modified, deleted, written>>

\* The history of an UpdateOne with the filter {_id: id}.
Record(id, set) ==
    [i \in DOMAIN written |->
        IF i = id THEN Values(set.title, set.description, set.status, set.updated_at)
        ELSE written[i]]

\* Lines 133-141: UpdateOne, then 404 on no match, else 200.
updateTask_write(p) ==
    /\ Ready /\ h[p].pc = "update_133"
    /\ LET id == h[p].id IN
       /\ taskCollection' = UpdateOne(id, h[p].updateData)
       /\ modified' = modified \cup (DOMAIN taskCollection \cap {id})
       /\ written' = Record(id, h[p].updateData)
       /\ IF Matched(id)
          THEN last' = Response("update", 200, "Task updated successfully", id, <<>>)
          ELSE last' = Response("update", 404, "Task not found", id, <<>>)
    /\ h' = [h EXCEPT ![p] = Idle]
    /\ UNCHANGED <<clock, objectIDCounter, requests, created, deleted>>

---------------------------------------------------------------------------
\* deleteTask, main.go 144-159: one DeleteOne.
Without(coll, id) == [i \in DOMAIN coll \ {id} |-> coll[i]]

deleteTask(param) ==
    /\ Ready
    /\ LET parsed == ObjectIDFromHex(param) IN
       IF parsed.err
       THEN /\ last' = Response("delete", 400, "Invalid ID", NilObjectID, <<>>)
            /\ UNCHANGED <<taskCollection, deleted, written>>
       ELSE IF parsed.id \notin DOMAIN taskCollection
       THEN /\ last' = Response("delete", 404, "Task not found", parsed.id, <<>>)
            /\ UNCHANGED <<taskCollection, deleted, written>>
       ELSE /\ taskCollection' = Without(taskCollection, parsed.id)
            /\ written' = Without(written, parsed.id)
            /\ deleted' = deleted \cup {parsed.id}
            /\ last' = Response("delete", 200, "Task deleted successfully", parsed.id, <<>>)
    /\ UNCHANGED <<clock, objectIDCounter, h, requests, created, modified>>

---------------------------------------------------------------------------
\* The service with a store that answers every call.
Next ==
    \/ Tick
    \/ Sent
    \/ \E p \in Procs, body \in Bodies \cup {Malformed} : createTask_begin(p, body)
    \/ \E p \in Procs : createTask_updatedAt(p)
    \/ \E p \in Procs : createTask_insert(p)
    \/ \E p \in Procs : getAllTasks_find(p)
    \/ \E p \in Procs : getAllTasks_next(p)
    \/ \E p \in Procs : getAllTasks_done(p)
    \/ \E param \in Params : getTaskByID(param)
    \/ \E p \in Procs, param \in Params, body \in Bodies \cup {Malformed} :
          updateTask_begin(p, param, body)
    \/ \E p \in Procs : updateTask_write(p)
    \/ \E param \in Params : deleteTask(param)

Spec == Init /\ [][Next]_vars

---------------------------------------------------------------------------
\* Store failures: a call on the collection returns an error.  A write that
\* returns an error may or may not have been applied by the server.

\* Lines 65-68: InsertOne fails.
createTask_insertErr(p) ==
    /\ Ready /\ h[p].pc = "create_65"
    /\ LET task == h[p].task IN
       /\ \/ UNCHANGED <<taskCollection, written>>
          \/ /\ task.ID \notin DOMAIN taskCollection
             /\ taskCollection' = (task.ID :> Marshal(task)) @@ taskCollection
             /\ written' = (task.ID :> Values(task.Title, task.Description,
                                              task.Status, task.UpdatedAt)) @@ written
       /\ last' = Response("create", 500, "Failed to create task", NilObjectID, <<>>)
    /\ h' = [h EXCEPT ![p] = Idle]
    /\ UNCHANGED <<clock, objectIDCounter, requests, created, modified, deleted>>

\* Lines 74-77: Find fails.
getAllTasks_findErr(p) ==
    /\ Ready /\ FirstIdle(p)
    /\ last' = Response("list", 500, "Failed to fetch tasks", NilObjectID, <<>>)
    /\ UNCHANGED <<taskCollection, clock, objectIDCounter, h, requests, created, modified, deleted, written>>

\* Lines 81, 89: cursor.Next returns false because the cursor failed; the
\* loop ends as it does on an exhausted cursor and line 89 sends the tasks
\* decoded so far (cursor.Err() is not read).
getAllTasks_nextErr(p) ==
    /\ Ready /\ h[p].pc = "list_81"
    /\ last' = Response("list", 200, "", NilObjectID, h[p].tasks)
    /\ h' = [h EXCEPT ![p] = Idle]
    /\ UNCHANGED <<taskCollection, clock, objectIDCounter, requests, created, modified, deleted, written>>

\* Lines 83-85: cursor.Decode fails.
getAllTasks_decodeErr(p) ==
    /\ Ready /\ h[p].pc = "list_81"
    /\ Remaining(h[p].pos) # {}
    /\ last' = Response("list", 500, "Error decoding task data", NilObjectID, <<>>)
    /\ h' = [h EXCEPT ![p] = Idle]
    /\ UNCHANGED <<taskCollection, clock, objectIDCounter, requests, created, modified, deleted, written>>

\* Lines 100-105: FindOne fails with an error other than ErrNoDocuments.
getTaskByID_err(param) ==
    /\ Ready
    /\ ~ObjectIDFromHex(param).err
    /\ last' = Response("get", 500, "Failed to fetch task", NilObjectID, <<>>)
    /\ UNCHANGED <<taskCollection, clock, objectIDCounter, h, requests, created, modified, deleted, written>>

\* Lines 133-136: UpdateOne fails.
updateTask_writeErr(p) ==
    /\ Ready /\ h[p].pc = "update_133"
    /\ LET id == h[p].id IN
       /\ \/ UNCHANGED <<taskCollection, modified, written>>
          \/ /\ Matched(id)
             /\ taskCollection' = UpdateOne(id, h[p].updateData)
             /\ modified' = modified \cup {id}
             /\ written' = Record(id, h[p].updateData)
       /\ last' = Response("update", 500, "Failed to update task", NilObjectID, <<>>)
    /\ h' = [h EXCEPT ![p] = Idle]
    /\ UNCHANGED <<clock, objectIDCounter, requests, created, deleted>>

\* Lines 151-154: DeleteOne fails.
deleteTask_err(param) ==
    /\ Ready
    /\ ~ObjectIDFromHex(param).err
    /\ LET id == ObjectIDFromHex(param).id IN
       /\ \/ UNCHANGED <<taskCollection, written>>
          \/ /\ id \in DOMAIN taskCollection
             /\ taskCollection' = Without(taskCollection, id)
             /\ written' = Without(written, id)
       /\ last' = Response("delete", 500, "Failed to delete task", NilObjectID, <<>>)
    /\ UNCHANGED <<clock, objectIDCounter, h, requests, created, modified, deleted>>

Fault ==
    \/ \E p \in Procs : createTask_insertErr(p)
    \/ \E p \in Procs : getAllTasks_findErr(p)
    \/ \E p \in Procs : getAllTasks_nextErr(p)
    \/ \E p \in Procs : getAllTasks_decodeErr(p)
    \/ \E param \in Params : getTaskByID_err(param)
    \/ \E p \in Procs : updateTask_writeErr(p)
    \/ \E param \in Params : deleteTask_err(param)

\* The service with a store that may fail.
NextF == Next \/ Fault

SpecF == Init /\ [][NextF]_vars

---------------------------------------------------------------------------
\* Properties.

\* The handler in goroutine p wrote its response in this step.
Answered(p, pc) == h[p].pc = pc /\ h'[p] = Idle

\* A path parameter that names an id: HexLen characters, each a digit.
WellFormed(param) == Len(param) = HexLen /\ \A i \in 1..Len(param) : param[i] \in HexDigits

\* C1: after a Create answered 201, a GetByID on the returned id, with no
\* Update or Delete of that id in between, answers 200 with the title,
\* description and status the Create returned, and with createdAt equal to
\* updatedAt.
C1_RoundTrip ==
    \A id \in DOMAIN created :
        (last.op = "get" /\ last.id = id /\ id \notin modified /\ id \notin deleted) =>
            /\ last.status = 200
            /\ last.body[1].Title = created[id].title
            /\ last.body[1].Description = created[id].description
            /\ last.body[1].Status = created[id].status
            /\ last.body[1].CreatedAt = last.body[1].UpdatedAt

\* The part of C1 the code keeps: the three fields come back as returned.
C1_RoundTripFields ==
    \A id \in DOMAIN created :
        (last.op = "get" /\ last.id = id /\ id \notin modified /\ id \notin deleted) =>
            /\ last.status = 200
            /\ last.body[1].Title = created[id].title
            /\ last.body[1].Description = created[id].description
            /\ last.body[1].Status = created[id].status

\* C2: an Update that answers 200 leaves title, description and status equal
\* to the decoded payload values, empty where the payload omitted the field,
\* and leaves the record's _id and created_at as they were.
C2_UpdateOverwrites ==
    [][\A p \in Procs :
         (Answered(p, "update_133") /\ last'.op = "update" /\ last'.status = 200) =>
            LET id == h[p].id
                set == h[p].updateData
            IN  /\ id \in DOMAIN taskCollection
                /\ DOMAIN taskCollection' = DOMAIN taskCollection
                /\ Decode(id, taskCollection'[id]).Title = set.title
                /\ Decode(id, taskCollection'[id]).Description = set.description
                /\ Decode(id, taskCollection'[id]).Status = set.status
                /\ taskCollection'[id].created_at = taskCollection[id].created_at
                /\ \A i \in DOMAIN taskCollection \ {id} : taskCollection'[i] = taskCollection[i]
      ]_vars

\* C2's case: an Update with no title, description or status in its payload
\* answered 200 and blanked a record created with title "A".
C2_Witness ==
    /\ last.op = "update" /\ last.status = 200
    /\ last.id \in DOMAIN created /\ created[last.id].title = "A"
    /\ taskCollection[last.id].title = ""
    /\ taskCollection[last.id].description = <<"">>

\* C3: GetByID, Update and Delete answer 400 on a malformed path id (Update
\* whatever the payload) and 404 on a well-formed id with no record.
C3_NotFoundSymmetry ==
    [][/\ last'.op = "get" =>
            \A param \in Params : getTaskByID(param) =>
                /\ ~WellFormed(param) => last'.status = 400
                /\ (WellFormed(param) /\ HexValue(param) \notin DOMAIN taskCollection)
                      => last'.status = 404
       /\ last'.op = "delete" =>
            \A param \in Params : deleteTask(param) =>
                /\ ~WellFormed(param) => last'.status = 400
                /\ (WellFormed(param) /\ HexValue(param) \notin DOMAIN taskCollection)
                      => last'.status = 404
       /\ \A p \in Procs, param \in Params, body \in Bodies \cup {Malformed} :
            (updateTask_begin(p, param, body) /\ ~WellFormed(param)) =>
                last'.op = "update" /\ last'.status = 400
       /\ \A p \in Procs :
            (Answered(p, "update_133") /\ h[p].id \notin DOMAIN taskCollection) =>
                last'.op = "update" /\ last'.status = 404
      ]_vars

\* C3's case: an Update on a well-formed id that was deleted answered 404.
C3_Witness ==
    last.op = "update" /\ last.status = 404 /\ last.id \in deleted

\* C4: once a Delete on an id has answered 200, the id is never present
\* again and every GetByID on it answers 404.
C4_DeletionFinal ==
    /\ deleted \cap DOMAIN taskCollection = {}
    /\ (last.op = "get" /\ last.id \in deleted) => last.status = 404

\* C4's case: a GetByID on a deleted id answered 404 after a later Create
\* was accepted.
C4_Witness ==
    /\ last.op = "get" /\ last.status = 404 /\ last.id \in deleted
    /\ \E id \in DOMAIN taskCollection : id > last.id

\* C5: a Create whose decoded title is empty answers 400, inserts nothing
\* and starts nothing that could insert later.
C5_TitleRequired ==
    [][\A p \in Procs, body \in Bodies :
         (createTask_begin(p, body) /\ Bind(body).Title = "") =>
            /\ last'.op = "create" /\ last'.status = 400
            /\ taskCollection' = taskCollection
            /\ h' = h
      ]_vars

\* C5's case: a Create was refused for its title.
C5_Witness ==
    last.op = "create" /\ last.status = 400 /\ last.msg = "Title is required"

\* C6: from an empty store, after N Creates answered 201 and no Delete, a
\* List during which no further Create is answered answers 200 with exactly
\* N entries, one per created id (none when N is 0).
C6_Listing ==
    [][\A p \in Procs :
         (/\ Answered(p, "list_81")
          /\ deleted = {}
          /\ h[p].n0 = Cardinality(DOMAIN created)) =>
            /\ last'.op = "list" /\ last'.status = 200
            /\ Len(last'.body) = Cardinality(DOMAIN created)
            /\ {last'.body[k].ID : k \in 1..Len(last'.body)} = DOMAIN created
      ]_vars

\* C6's case: a List answered 200 with two entries after two Creates and no
\* Delete.
C6_Witness ==
    /\ last.op = "list" /\ last.status = 200
    /\ deleted = {}
    /\ Cardinality(DOMAIN created) = 2
    /\ Len(last.body) = 2

\* C7: every record present has updated_at at or after created_at.
C7_UpdatedNotBeforeCreated ==
    \A id \in DOMAIN taskCollection :
        taskCollection[id].updated_at >= taskCollection[id].created_at

\* C8: an Update that answers 200 leaves updated_at strictly greater than the
\* updated_at stored just before it was applied.
C8_UpdatedAtIncreases ==
    [][\A p \in Procs :
         (Answered(p, "update_133") /\ last'.op = "update" /\ last'.status = 200) =>
            taskCollection'[h[p].id].updated_at > taskCollection[h[p].id].updated_at
      ]_vars

\* Another Update of the same id is in flight, or one has been applied.
Concurrent(p) ==
    \/ h[p].id \in modified
    \/ \E q \in Procs \ {p} : h[q].pc = "update_133" /\ h[q].id = h[p].id

\* C9: when Updates of one existing id overlap, each store write is answered
\* 200 (none is refused as a conflict) and leaves title, description, status
\* and updated_at all equal to the values of the Update that wrote: after
\* both, the record is the one of the write that arrived last, never a mix.
C9_LastWriteWins ==
    [][\A p \in Procs :
         (/\ Answered(p, "update_133")
          /\ h[p].id \in DOMAIN taskCollection
          /\ Concurrent(p)) =>
            LET id == h[p].id
                set == h[p].updateData
            IN  /\ last'.op = "update" /\ last'.status = 200
                /\ id \in DOMAIN taskCollection'
                /\ taskCollection'[id].title = set.title
                /\ taskCollection'[id].description = <<set.description>>
                /\ taskCollection'[id].status = set.status
                /\ taskCollection'[id].updated_at = DateTime(set.updated_at)
      ]_vars

\* C9's case: an Update has answered 200 and the record holds its values
\* while another Update of the same id, with another title and status, is
\* still in flight.
C9_Witness ==
    /\ last.op = "update" /\ last.status = 200
    /\ \E q \in Procs :
          /\ h[q].pc = "update_133" /\ h[q].id = last.id
          /\ h[q].updateData.title # taskCollection[last.id].title
          /\ h[q].updateData.status # taskCollection[last.id].status

\* C10: a List that answers 200 has visited every document: the cursor was
\* exhausted, not stopped by a store failure.
C10_ListFailure ==
    [][\A p \in Procs :
         (Answered(p, "list_81") /\ last'.op = "list" /\ last'.status = 200) =>
            Remaining(h[p].pos) = {}
      ]_vars

\* C11: every record present has a non-empty title.
C11_TitleNonEmpty ==
    \A id \in DOMAIN taskCollection : taskCollection[id].title # ""

\* C12: a Create that answers 201 stores and returns status "Pending" when
\* the payload had no status or an empty one, and the payload's status
\* unchanged otherwise.
C12_DefaultStatus ==
    [][\A p \in Procs :
         (Answered(p, "create_65") /\ last'.op = "create" /\ last'.status = 201) =>
            LET expected == IF h[p].payload.Status = "" THEN "Pending"
                            ELSE h[p].payload.Status
            IN  /\ last'.body[1].Status = expected
                /\ last'.id \in DOMAIN taskCollection'
                /\ taskCollection'[last'.id].status = expected
      ]_vars

\* C12's case: a Create answered 201 with the default status, and the record
\* stored has it (no payload tried carries "Pending").
C12_Witness ==
    /\ last.op = "create" /\ last.status = 201
    /\ last.body[1].Status = "Pending"
    /\ taskCollection[last.id].status = "Pending"

\* C13: the set of present ids changes only by a Create answered 201, which
\* adds one id never present before, and by a Delete answered 200, which
\* removes the requested id and no other; an Update leaves the set as it
\* was, and answers 404 on an absent id without creating a record.
C13_IdSet ==
    [][/\ DOMAIN taskCollection \subseteq DOMAIN created
       /\ DOMAIN taskCollection' # DOMAIN taskCollection =>
             \/ last'.op = "create" /\ last'.status = 201
             \/ last'.op = "delete" /\ last'.status = 200
       /\ (last'.op = "create" /\ last'.status = 201) =>
             /\ last'.id \notin DOMAIN created
             /\ last'.id \notin DOMAIN taskCollection
             /\ DOMAIN taskCollection' = DOMAIN taskCollection \cup {last'.id}
       /\ \A param \in Params :
             (deleteTask(param) /\ last'.status = 200) =>
                /\ HexValue(param) \in DOMAIN taskCollection
                /\ DOMAIN taskCollection' = DOMAIN taskCollection \ {HexValue(param)}
       /\ \A p \in Procs :
             Answered(p, "update_133") =>
                /\ DOMAIN taskCollection' = DOMAIN taskCollection
                /\ h[p].id \notin DOMAIN taskCollection =>
                      last'.op = "update" /\ last'.status = 404
      ]_vars

\* C13's case: a Delete answered 200 and its id is gone while another record,
\* created and updated before, is still present.
C13_Witness ==
    /\ last.op = "delete" /\ last.status = 200
    /\ last.id \notin DOMAIN taskCollection
    /\ \E id \in DOMAIN taskCollection : id \in modified

\* C14: a GetByID on a well-formed id, whatever Creates, Updates and Deletes
\* of that id are in flight, answers 404 or a record whose title,
\* description, status and updatedAt are those of one request: the Create or
\* the Update that wrote the record last.
C14_NoMixedRecord ==
    (last.op = "get" /\ last.status # 400) =>
        \/ last.status = 404
        \/ /\ last.status = 200
           /\ last.id \in DOMAIN written
           /\ last.body[1].Title = written[last.id].title
           /\ last.body[1].Description = written[last.id].description
           /\ last.body[1].Status = written[last.id].status
           /\ DateTime(last.body[1].UpdatedAt) = written[last.id].updated_at

\* C14's case: a GetByID answered 200 on a record an Update has rewritten,
\* while another Update of the same id with another title is in flight.
C14_Witness ==
    /\ last.op = "get" /\ last.status = 200
    /\ last.id \in modified
    /\ \E q \in Procs :
          /\ h[q].pc = "update_133" /\ h[q].id = last.id
          /\ h[q].updateData.title # last.body[1].Title

\* C15: a Create that answers 201 returns and stores an id no record has had
\* and no other request holds, and a createdAt and an updatedAt read from the
\* service clock during the request, whatever id, createdAt and updatedAt
\* its payload carried.
C15_ServiceAssigns ==
    [][\A p \in Procs :
         (Answered(p, "create_65") /\ last'.op = "create" /\ last'.status = 201) =>
            LET task == last'.body[1]
                payload == h[p].payload
            IN  /\ task.ID # NilObjectID
                /\ task.ID \notin DOMAIN created
                /\ task.ID \notin DOMAIN taskCollection
                /\ \A q \in Procs \ {p} :
                      h[q].pc \in {"create_63", "create_65"} => h[q].task.ID # task.ID
                /\ task.CreatedAt \in 0..clock
                /\ task.UpdatedAt \in task.CreatedAt..clock
                /\ payload.CreatedAt # ZeroTime => task.CreatedAt # payload.CreatedAt
                /\ payload.UpdatedAt # ZeroTime => task.UpdatedAt # payload.UpdatedAt
                /\ task.ID \in DOMAIN taskCollection'
                /\ taskCollection'[task.ID].created_at = DateTime(task.CreatedAt)
                /\ taskCollection'[task.ID].updated_at = DateTime(task.UpdatedAt)
      ]_vars

\* C15's case: a Create whose payload carried the id of a record that is
\* present and timestamps of its own has drawn another id and read the clock
\* into both timestamps.
C15_Witness ==
    \E p \in Procs :
        /\ h[p].pc = "create_65"
        /\ h[p].payload.ID \in DOMAIN taskCollection
        /\ h[p].payload.CreatedAt = CallerTime
        /\ h[p].payload.UpdatedAt = CallerTime
        /\ h[p].task.ID # h[p].payload.ID
        /\ h[p].task.CreatedAt <= clock
        /\ h[p].task.UpdatedAt <= clock

\* A step of a getAllTasks handler.
ListStep == \E p \in Procs : h'[p] # h[p] /\ "list_81" \in {h[p].pc, h'[p].pc}

\* C16: a step that answers 400 or 404, and every step of a GetByID or a
\* List, leaves the store as it was; the store changes only in a step that
\* answers 201 to a Create, 200 to an Update or 200 to a Delete.
C16_Frame ==
    [][/\ last'.status \in {400, 404} => taskCollection' = taskCollection
       /\ (last'.op \in {"get", "list"} \/ ListStep) => taskCollection' = taskCollection
       /\ taskCollection' # taskCollection =>
             \/ last'.op = "create" /\ last'.status = 201
             \/ last'.op = "update" /\ last'.status = 200
             \/ last'.op = "delete" /\ last'.status = 200
      ]_vars

\* C16 amended: as C16, and the store also changes in a step that answers
\* 500 to a Create, an Update or a Delete whose write the store applied
\* before it returned the error.
C16_FrameAmended ==
    [][/\ last'.status \in {400, 404} => taskCollection' = taskCollection
       /\ (last'.op \in {"get", "list"} \/ ListStep) => taskCollection' = taskCollection
       /\ taskCollection' # taskCollection =>
             \/ last'.op = "create" /\ last'.status \in {201, 500}
             \/ last'.op = "update" /\ last'.status \in {200, 500}
             \/ last'.op = "delete" /\ last'.status \in {200, 500}
      ]_vars

\* C16's case: a Create answered 500 and the record it inserted is present.
C16_Witness ==
    /\ last.op = "create" /\ last.status = 500
    /\ DOMAIN taskCollection \ DOMAIN created # {}

====
